---------------------------- MODULE Spec2Model ----------------------------
(***************************************************************************)
(* spotify_to_tidal/main.py as a state machine.                            *)
(*                                                                         *)
(* The program is sequential.  migrate_all_playlists walks the source      *)
(* playlists; per playlist it reads the tracks, creates the destination   *)
(* playlist, resolves every track (ISRC search, then fuzzy search), and    *)
(* hands the resolved ids to tidal_add_tracks_in_batches, which guards     *)
(* every POST with an ETag fetched just before it.  The remote services    *)
(* are the environment: every answer they can give (status code, ETag      *)
(* header, search results) is a nondeterministic choice of the action that *)
(* issues the request.                                                     *)
(*                                                                         *)
(* Two specifications share the actions:                                   *)
(*   Spec       the whole run, from main()                                 *)
(*   SpecBatch  one call of tidal_add_tracks_in_batches on any id list     *)
(***************************************************************************)
EXTENDS Integers, Sequences, FiniteSets

VARIABLES
    sp_pls,          \* the (filtered) source playlists, main.py:253-255
    batch,           \* TIDAL_ADD_BATCH / the batch parameter, main.py:19,213
    pc,              \* position of the run
    idx,             \* enumerate(sp_pls, 1) counter, main.py:260
    tracks,          \* tracks of the current playlist, main.py:266
    t_playlist,      \* id of the destination playlist created, main.py:270
    ti,              \* position of `for t in tracks`, main.py:275
    tid,             \* resolved id of the current track, main.py:276
    tidal_ids,       \* resolved ids of the current playlist, main.py:274
    not_found_rows,  \* the unresolved list, main.py:258
    report,          \* rows of not_found.csv, main.py:308
    report_written,  \* whether not_found.csv was written by this run
    remote,          \* destination service: item list of every playlist created
    i,               \* batch offset, main.py:218
    etag,            \* the ETag held, main.py:221,234
    calls,           \* history: requests of the current batch-writer call, in order
    searches,        \* history: searches issued for the current track, in order
    via,             \* history: per playlist read, how each track was resolved
    fatal_at         \* history: playlist during which an exception was raised (0: none)

vars == <<sp_pls, batch, pc, idx, tracks, t_playlist, ti, tid, tidal_ids,
          not_found_rows, report, report_written, remote, i, etag, calls,
          searches, via, fatal_at>>

-----------------------------------------------------------------------------
(* Bounds of the model *)

\* longest id list handed to the batch writer under SpecBatch
MaxIds == 4
\* largest batch size
MaxBatch == 3
\* longest result list a search answers with (the code asks for 5 and 20)
MaxCandidates == 2

-----------------------------------------------------------------------------
(* Values *)

\* Python's None for a track id (tid = None, `if not tid`)
NoId == 0
\* a missing ETag header (resp.headers.get("ETag") is None)
NoEtag == 0
\* Python's None for a search hit; a hit is <<candidate>>
None == <<>>
\* the tolerance of the fuzzy duration filter, in ms
ToleranceMs == 2000
\* the status of a staleness conflict
PreconditionFailed == 412
\* the first status the code treats as an error
ErrorFloor == 400

\* what the destination service answers a POST of items with
PostStatuses == {200, 400, 412, 500}
\* what it answers any other request with
HttpStatuses == {200, 400}

\* the destination catalog: DestinationCandidate {id, duration in seconds}
Catalog == {[id |-> 11, duration |-> 1], [id |-> 12, duration |-> 5]}
CatalogIds == {c.id : c \in Catalog}

SeqsUpTo(S, n) == UNION {[1..k -> S] : k \in 0..n}

Min(a, b) == IF a <= b THEN a ELSE b
Abs(x) == IF x < 0 THEN -x ELSE x

\* Python's s[a:b] for 0 <= a <= b
Slice(s, a, b) == SubSeq(s, a + 1, Min(b, Len(s)))

RECURSIVE Concat(_)
Concat(ss) == IF ss = <<>> THEN <<>> ELSE Head(ss) \o Concat(Tail(ss))

-----------------------------------------------------------------------------
(* tidal_get_playlist_etag, main.py:50-65 *)

\* the ETag returned for a response, NoEtag when the function raises
tidal_get_playlist_etag(status, header) ==
    IF status >= ErrorFloor THEN NoEtag
    ELSE IF header = NoEtag THEN NoEtag
    ELSE header

\* history record of a request of the batch writer
Call(op, offset, tag, status, ids) ==
    [op |-> op, i |-> offset, etag |-> tag, status |-> status, ids |-> ids]

-----------------------------------------------------------------------------
(* tidal_add_tracks_in_batches, main.py:213-242 *)

\* chunk = track_ids[i:i+batch]
ChunkLong(track_ids, offset, size) == Slice(track_ids, offset, offset + size + 1)
Chunk(track_ids, offset, size) == Slice(track_ids, offset, offset + size)

\* range(0, len(track_ids), batch): the next offset
NextOffsetSkipping(offset, size) == offset + size + 1
NextOffset(offset, size) == offset + size

\* where the first POST's status leads: retry on 412, raise on another error
AfterPostNoRefetch(status) ==
    IF status = PreconditionFailed THEN "repost"
    ELSE IF status >= ErrorFloor THEN "raised"
    ELSE "batch"
AfterPostRetryAny(status) ==
    IF status >= ErrorFloor THEN "refetch" ELSE "batch"
AfterPost(status) ==
    IF status = PreconditionFailed THEN "refetch"
    ELSE IF status >= ErrorFloor THEN "raised"
    ELSE "batch"

\* where the retried POST's status leads: no second retry
AfterRetryAgain(status) ==
    IF status = PreconditionFailed THEN "refetch"
    ELSE IF status >= ErrorFloor THEN "raised"
    ELSE "batch"
AfterRetry(status) ==
    IF status >= ErrorFloor THEN "raised" ELSE "batch"

\* the destination after a POST of ids answered with status
Posted(status, ids) ==
    IF status >= ErrorFloor THEN remote
    ELSE [remote EXCEPT ![t_playlist] = @ \o ids]

Orchestrator == <<sp_pls, batch, idx, tracks, t_playlist, ti, tid, tidal_ids,
                  not_found_rows, report, report_written, searches, via>>

\* for i in range(0, len(track_ids), batch): one more batch, or return
BatchLoop ==
    /\ pc = "batch"
    /\ pc' = IF i < Len(tidal_ids) THEN "fetch" ELSE "returned"
    /\ UNCHANGED <<Orchestrator, remote, i, etag, calls, fatal_at>>

\* etag = tidal_get_playlist_etag(session, playlist.id), main.py:221
\* An ETag is identified with the GET that returned it: its value is the
\* position of that GET in the request history.
FetchEtag ==
    /\ pc = "fetch"
    /\ \E status \in HttpStatuses, present \in BOOLEAN :
        LET header == IF present THEN Len(calls) + 1 ELSE NoEtag
            got == tidal_get_playlist_etag(status, header)
        IN  /\ calls' = Append(calls, Call("GET", i, got, status, <<>>))
            /\ etag' = got
            /\ pc' = IF got = NoEtag THEN "raised" ELSE "post"
            /\ fatal_at' = IF got = NoEtag THEN idx ELSE fatal_at
    /\ UNCHANGED <<Orchestrator, remote, i>>

\* resp = POST with If-None-Match: etag, main.py:229-231 and 238-242
PostChunk ==
    /\ pc = "post"
    /\ \E status \in PostStatuses :
        LET ids == Chunk(tidal_ids, i, batch)
            to == AfterPost(status)
        IN  /\ calls' = Append(calls, Call("POST", i, etag, status, ids))
            /\ remote' = Posted(status, ids)
            /\ pc' = to
            /\ i' = IF to = "batch" THEN NextOffset(i, batch) ELSE i
            /\ fatal_at' = IF to = "raised" THEN idx ELSE fatal_at
    /\ UNCHANGED <<Orchestrator, etag>>

\* the 412 branch: etag = tidal_get_playlist_etag(...), main.py:233-235
RefetchEtag ==
    /\ pc = "refetch"
    /\ \E status \in HttpStatuses, present \in BOOLEAN :
        LET header == IF present THEN Len(calls) + 1 ELSE NoEtag
            got == tidal_get_playlist_etag(status, header)
        IN  /\ calls' = Append(calls, Call("GET", i, got, status, <<>>))
            /\ etag' = got
            /\ pc' = IF got = NoEtag THEN "raised" ELSE "repost"
            /\ fatal_at' = IF got = NoEtag THEN idx ELSE fatal_at
    /\ UNCHANGED <<Orchestrator, remote, i>>

\* the retried POST, main.py:236-242
RetryPost ==
    /\ pc = "repost"
    /\ \E status \in PostStatuses :
        LET ids == Chunk(tidal_ids, i, batch)
            to == AfterRetry(status)
        IN  /\ calls' = Append(calls, Call("POST", i, etag, status, ids))
            /\ remote' = Posted(status, ids)
            /\ pc' = to
            /\ i' = IF to = "batch" THEN NextOffset(i, batch) ELSE i
            /\ fatal_at' = IF to = "raised" THEN idx ELSE fatal_at
    /\ UNCHANGED <<Orchestrator, etag>>

NextBatch == BatchLoop \/ FetchEtag \/ PostChunk \/ RefetchEtag \/ RetryPost

\* a call tidal_add_tracks_in_batches(session, playlist, track_ids, batch)
InitBatch ==
    /\ sp_pls = <<>>
    /\ batch \in 1..MaxBatch
    /\ pc = "batch"
    /\ idx = 1
    /\ tracks = <<>>
    /\ t_playlist = 1
    /\ ti = 1
    /\ tid = NoId
    /\ tidal_ids \in SeqsUpTo(CatalogIds, MaxIds)
    /\ not_found_rows = <<>>
    /\ report = <<>>
    /\ report_written = FALSE
    /\ remote = << <<>> >>
    /\ i = 0
    /\ etag = NoEtag
    /\ calls = <<>>
    /\ searches = <<>>
    /\ via = <<>>
    /\ fatal_at = 0

SpecBatch == InitBatch /\ [][NextBatch]_vars

-----------------------------------------------------------------------------
(* The source library: what sp_current_user_playlists and sp_playlist_tracks *)
(* return, main.py:99-132 *)

SourceTrack(name, artists, album, duration_ms, isrc) ==
    [name |-> name, artists |-> artists, album |-> album,
     duration_ms |-> duration_ms, isrc |-> isrc]

\* isrc "" stands for None: the code only tests it for truth
TrackA == SourceTrack("A", "Ann", "LP1", 7000, "ISRC-A")
TrackB == SourceTrack("B", "Bob", "LP1", 0, "")
TrackC == SourceTrack("C", "Cy", "LP2", 8000, "ISRC-C")
TrackD == SourceTrack("D", "Dee", "LP3", 3000, "")
TrackE == SourceTrack("", "", "LP3", 3000, "ISRC-E")

Libraries ==
    { <<>>,
      << [name |-> "P1", tracks |-> <<TrackA, TrackB, TrackC>>],
         [name |-> "P2", tracks |-> <<TrackD, TrackE>>] >>,
      << [name |-> "P0", tracks |-> <<>>],
         [name |-> "P3", tracks |-> <<TrackB>>] >>,
      << [name |-> "P4", tracks |-> <<TrackD>>],
         [name |-> "P5", tracks |-> <<TrackA>>],
         [name |-> "P6", tracks |-> <<TrackE, TrackB>>] >> }

-----------------------------------------------------------------------------
(* tidal_search_track_by_isrc, main.py:170-184 *)

\* tracks[0] if tracks else None
tidal_search_track_by_isrc(results) ==
    IF results = <<>> THEN None ELSE <<results[1]>>

-----------------------------------------------------------------------------
(* tidal_search_track_fuzzy, main.py:187-210 *)

\* q = f"{title} {artists}".strip() is not empty
HasQuery(t) == ~(t.name = "" /\ t.artists = "")

\* abs(dur_ms - target) <= 2000
WithinToleranceStrict(dur_ms, target) == Abs(dur_ms - target) < ToleranceMs
WithinTolerance(dur_ms, target) == Abs(dur_ms - target) <= ToleranceMs

\* the for loop over tracks: the first candidate within tolerance
RECURSIVE FirstWithin(_, _, _)
FirstWithin(results, target, k) ==
    IF k > Len(results) THEN None
    ELSE IF WithinTolerance(results[k].duration * 1000, target) THEN <<results[k]>>
    ELSE FirstWithin(results, target, k + 1)

tidal_search_track_fuzzy(results, duration_ms) ==
    IF results = <<>> THEN None
    ELSE LET found == FirstWithin(results, duration_ms, 1)
         IN  IF found # None THEN found ELSE <<results[1]>>

-----------------------------------------------------------------------------
(* migrate_all_playlists, main.py:249-311 *)

\* if hit: tid = hit.get('id')
HitId(hit, old) == IF hit # None THEN hit[1].id ELSE old

\* if not tid: fall back to the fuzzy search
NeedFuzzyAlways(t) == TRUE
NeedFuzzy(t) == t = NoId

\* if tid: tidal_ids.append(tid)
TidalIdsUnchecked(ids, t) == Append(ids, t)
TidalIds(ids, t) == IF t # NoId THEN Append(ids, t) ELSE ids

\* the row of an unresolved track
Row(playlist, t) ==
    [playlist |-> playlist, title |-> t.name, artists |-> t.artists,
     album |-> t.album, isrc |-> t.isrc, duration_ms |-> t.duration_ms]

\* else: not_found_rows.append({...})
NotFoundRowsOverwritten(rows, playlist, t, id) ==
    IF id # NoId THEN rows ELSE <<Row(playlist, t)>>
NotFoundRows(rows, playlist, t, id) ==
    IF id # NoId THEN rows ELSE Append(rows, Row(playlist, t))

\* history record of a search
Search(kind, status, results) ==
    [kind |-> kind, status |-> status,
     results |-> IF status >= ErrorFloor THEN <<>> ELSE results]

\* how the current track was resolved
How == IF tid = NoId THEN "none"
       ELSE IF \E k \in 1..Len(searches) : searches[k].kind = "fuzzy" THEN "fuzzy"
       ELSE "isrc"

BatchWriter == <<i, etag, calls>>

\* for idx, pl in enumerate(sp_pls, 1): tracks = sp_playlist_tracks(...)
ReadTracks ==
    /\ pc = "read"
    /\ idx <= Len(sp_pls)
    /\ tracks' = sp_pls[idx].tracks
    /\ via' = Append(via, <<>>)
    /\ pc' = "create"
    /\ UNCHANGED <<sp_pls, batch, idx, t_playlist, ti, tid, tidal_ids,
                   not_found_rows, report, report_written, remote,
                   BatchWriter, searches, fatal_at>>

\* the loop over sp_pls is exhausted
LoopExit ==
    /\ pc = "read"
    /\ idx > Len(sp_pls)
    /\ pc' = "report"
    /\ UNCHANGED <<sp_pls, batch, idx, tracks, t_playlist, ti, tid, tidal_ids,
                   not_found_rows, report, report_written, remote,
                   BatchWriter, searches, via, fatal_at>>

\* t_playlist = tidal_create_playlist(...), main.py:145-166 and 270-274
CreatePlaylist ==
    /\ pc = "create"
    /\ \E status \in HttpStatuses, has_id \in BOOLEAN :
        LET created == status < ErrorFloor
            ok == created /\ has_id
        IN  /\ remote' = IF created THEN Append(remote, <<>>) ELSE remote
            /\ t_playlist' = IF ok THEN Len(remote) + 1 ELSE t_playlist
            /\ tidal_ids' = IF ok THEN <<>> ELSE tidal_ids
            /\ ti' = IF ok THEN 1 ELSE ti
            /\ pc' = IF ok THEN "resolve" ELSE "raised"
            /\ fatal_at' = IF ok THEN fatal_at ELSE idx
    /\ UNCHANGED <<sp_pls, batch, idx, tracks, tid, not_found_rows, report,
                   report_written, BatchWriter, searches, via>>

\* for t in tracks: tid = None; if t['isrc']: ...
ResolveNext ==
    /\ pc = "resolve"
    /\ IF ti <= Len(tracks)
       THEN /\ tid' = NoId
            /\ searches' = <<>>
            /\ pc' = IF tracks[ti].isrc # "" THEN "isrc" ELSE "fuzzy"
       ELSE /\ pc' = "add"
            /\ UNCHANGED <<tid, searches>>
    /\ UNCHANGED <<sp_pls, batch, idx, tracks, t_playlist, ti, tidal_ids,
                   not_found_rows, report, report_written, remote,
                   BatchWriter, via, fatal_at>>

\* hit = tidal_search_track_by_isrc(session, t['isrc']), main.py:278-281
ByISRC ==
    /\ pc = "isrc"
    /\ \E status \in HttpStatuses, results \in SeqsUpTo(Catalog, MaxCandidates) :
        /\ searches' = Append(searches, Search("isrc", status, results))
        /\ IF status >= ErrorFloor
           THEN /\ pc' = "raised"
                /\ fatal_at' = idx
                /\ tid' = tid
           ELSE LET hit == tidal_search_track_by_isrc(results)
                    got == HitId(hit, tid)
                IN  /\ tid' = got
                    /\ pc' = IF NeedFuzzy(got) THEN "fuzzy" ELSE "collect"
                    /\ fatal_at' = fatal_at
    /\ UNCHANGED <<sp_pls, batch, idx, tracks, t_playlist, ti, tidal_ids,
                   not_found_rows, report, report_written, remote,
                   BatchWriter, via>>

\* hit = tidal_search_track_fuzzy(session, name, artists, duration_ms),
\* main.py:283-286
ByFuzzy ==
    /\ pc = "fuzzy"
    /\ IF ~HasQuery(tracks[ti])
       THEN /\ pc' = "collect"
            /\ UNCHANGED <<tid, searches, fatal_at>>
       ELSE \E status \in HttpStatuses,
               results \in SeqsUpTo(Catalog, MaxCandidates) :
            /\ searches' = Append(searches, Search("fuzzy", status, results))
            /\ IF status >= ErrorFloor
               THEN /\ pc' = "raised"
                    /\ fatal_at' = idx
                    /\ tid' = tid
               ELSE LET hit == tidal_search_track_fuzzy(
                                   results, tracks[ti].duration_ms)
                    IN  /\ tid' = HitId(hit, tid)
                        /\ pc' = "collect"
                        /\ fatal_at' = fatal_at
    /\ UNCHANGED <<sp_pls, batch, idx, tracks, t_playlist, ti, tidal_ids,
                   not_found_rows, report, report_written, remote,
                   BatchWriter, via>>

\* if tid: tidal_ids.append(tid) else: not_found_rows.append(...), 288-298
Collect ==
    /\ pc = "collect"
    /\ tidal_ids' = TidalIds(tidal_ids, tid)
    /\ not_found_rows' =
           NotFoundRows(not_found_rows, sp_pls[idx].name, tracks[ti], tid)
    /\ via' = [via EXCEPT ![idx] = Append(@, How)]
    /\ searches' = <<>>
    /\ ti' = ti + 1
    /\ pc' = "resolve"
    /\ UNCHANGED <<sp_pls, batch, idx, tracks, t_playlist, tid, report,
                   report_written, remote, BatchWriter, fatal_at>>

\* if tidal_ids: tidal_add_tracks_in_batches(...), main.py:301-302
AddTracks ==
    /\ pc = "add"
    /\ pc' = IF tidal_ids # <<>> THEN "batch" ELSE "printed"
    /\ i' = 0
    /\ UNCHANGED <<sp_pls, batch, idx, tracks, t_playlist, ti, tid, tidal_ids,
                   not_found_rows, report, report_written, remote, etag,
                   calls, searches, via, fatal_at>>

\* the batch writer returned: print "Agregados", main.py:303
AfterAdd ==
    /\ pc = "returned"
    /\ pc' = "printed"
    /\ i' = 0
    /\ etag' = NoEtag
    /\ calls' = <<>>
    /\ UNCHANGED <<sp_pls, batch, idx, tracks, t_playlist, ti, tid, tidal_ids,
                   not_found_rows, report, report_written, remote, searches,
                   via, fatal_at>>

\* the next iteration of the loop over sp_pls
NextPlaylist ==
    /\ pc = "printed"
    /\ idx' = idx + 1
    /\ pc' = "read"
    /\ UNCHANGED <<sp_pls, batch, tracks, t_playlist, ti, tid, tidal_ids,
                   not_found_rows, report, report_written, remote,
                   BatchWriter, searches, via, fatal_at>>

\* if not_found_rows: DataFrame(not_found_rows).to_csv(...), main.py:306-311
WriteReport ==
    /\ pc = "report"
    /\ report' = IF not_found_rows # <<>> THEN not_found_rows ELSE report
    /\ report_written' = (not_found_rows # <<>>)
    /\ pc' = "done"
    /\ UNCHANGED <<sp_pls, batch, idx, tracks, t_playlist, ti, tid, tidal_ids,
                   not_found_rows, remote, BatchWriter, searches, via,
                   fatal_at>>

\* a RuntimeError meets no handler in migrate_all_playlists or main: the
\* run ends with the traceback
PropagateCaught ==
    /\ pc = "raised"
    /\ pc' = "read"
    /\ idx' = idx + 1
    /\ UNCHANGED <<sp_pls, batch, tracks, t_playlist, ti, tid, tidal_ids,
                   not_found_rows, report, report_written, remote,
                   BatchWriter, searches, via, fatal_at>>
Propagate ==
    /\ pc = "raised"
    /\ pc' = "failed"
    /\ UNCHANGED <<sp_pls, batch, idx, tracks, t_playlist, ti, tid, tidal_ids,
                   not_found_rows, report, report_written, remote,
                   BatchWriter, searches, via, fatal_at>>

Next ==
    \/ ReadTracks \/ LoopExit \/ CreatePlaylist \/ ResolveNext \/ ByISRC
    \/ ByFuzzy \/ Collect \/ AddTracks \/ BatchLoop \/ FetchEtag \/ PostChunk
    \/ RefetchEtag \/ RetryPost \/ AfterAdd \/ NextPlaylist \/ WriteReport
    \/ Propagate

\* main(): the state as the loop over sp_pls starts, main.py:250-260
Init ==
    /\ sp_pls \in Libraries
    /\ batch \in 1..MaxBatch
    /\ pc = "read"
    /\ idx = 1
    /\ tracks = <<>>
    /\ t_playlist = 0
    /\ ti = 1
    /\ tid = NoId
    /\ tidal_ids = <<>>
    /\ not_found_rows = <<>>
    /\ report = <<>>
    /\ report_written = FALSE
    /\ remote = <<>>
    /\ i = 0
    /\ etag = NoEtag
    /\ calls = <<>>
    /\ searches = <<>>
    /\ via = <<>>
    /\ fatal_at = 0

Spec == Init /\ [][Next]_vars

-----------------------------------------------------------------------------
(* Reading the history of a batch-writer call *)

IsPost(c) == c.op = "POST"
IsGet(c) == c.op = "GET"
\* a write the program takes as accepted
Accepted(c) == IsPost(c) /\ c.status < ErrorFloor
Conflict(c) == IsPost(c) /\ c.status = PreconditionFailed

PostsAt(offset) == {k \in 1..Len(calls) : IsPost(calls[k]) /\ calls[k].i = offset}
Offsets == {calls[k].i : k \in 1..Len(calls)}
WriteCalls == Len(SelectSeq(calls, IsPost))
TokenFetches == Len(SelectSeq(calls, IsGet))
Conflicts == Len(SelectSeq(calls, Conflict))
AcceptedWrites == SelectSeq(calls, Accepted)

First(S) == CHOOSE k \in S : \A m \in S : k <= m
Last(S) == CHOOSE k \in S : \A m \in S : m <= k

\* the call ended with an exception
Raised == pc \in {"raised", "failed"}

\* ceil(n / b)
Ceil(n, b) == (n + b - 1) \div b

-----------------------------------------------------------------------------
\* C1: a batch whose first POST gets 412 is retried once, after a new ETag
\* fetch: a batch has at most two POSTs; a second one exists only after a 412
\* on the first and carries the ETag of a GET issued in between; a first 412
\* leads to the re-fetch and, once that succeeded, to the second POST; a 412
\* on the second POST raises, and it is the last request of the call (no
\* third POST, no later batch).
C1_RetryOnce ==
    \A b \in Offsets :
        LET P == PostsAt(b) IN
        /\ Cardinality(P) <= 2
        /\ \A k \in P : Conflict(calls[k]) /\ k = First(P) /\ k = Len(calls)
                            => pc = "refetch"
        /\ \A k \in P : /\ Conflict(calls[k])
                         /\ k = First(P)
                         /\ k + 1 = Len(calls)
                         /\ calls[k + 1].etag # NoEtag
                            => pc = "repost"
        /\ Cardinality(P) = 2 =>
            /\ Conflict(calls[First(P)])
            /\ \E g \in (First(P) + 1)..(Last(P) - 1) :
                /\ IsGet(calls[g])
                /\ calls[g].etag # NoEtag
                /\ calls[g].etag = calls[Last(P)].etag
            /\ Conflict(calls[Last(P)]) =>
                /\ Raised
                /\ Last(P) = Len(calls)

\* a second conflict on the second batch has ended the call
C1_Witness ==
    /\ Raised
    /\ Len(calls) >= 6
    /\ Conflict(calls[Len(calls)])
    /\ Cardinality(PostsAt(calls[Len(calls)].i)) = 2
    /\ calls[Len(calls)].i > 0

-----------------------------------------------------------------------------
\* C2: every POST carries the ETag of the GET issued immediately before it,
\* so the ETag was fetched after every earlier POST and no POST lies between
\* the fetch and the write; no two POSTs carry the same ETag.
C2_FreshToken ==
    /\ \A k \in 1..Len(calls) : IsPost(calls[k]) =>
        /\ k > 1
        /\ IsGet(calls[k - 1])
        /\ calls[k - 1].etag # NoEtag
        /\ calls[k].etag = calls[k - 1].etag
    /\ \A k, m \in 1..Len(calls) :
        IsPost(calls[k]) /\ IsPost(calls[m]) /\ k # m
            => calls[k].etag # calls[m].etag

\* a retried batch followed by the write of a later batch
C2_Witness ==
    /\ WriteCalls >= 3
    /\ Conflicts >= 1
    /\ Cardinality(Offsets) >= 2

-----------------------------------------------------------------------------
\* C3 (as stated): no POST carries more than batch ids, a call that returned
\* has issued exactly ceil(N / batch) POSTs, and none and no GET for N = 0.
C3_Original ==
    /\ \A k \in 1..Len(calls) : IsPost(calls[k]) => Len(calls[k].ids) <= batch
    /\ pc = "returned" => WriteCalls = Ceil(Len(tidal_ids), batch)
    /\ Len(tidal_ids) = 0 => calls = <<>>

\* C3 (amended): no POST carries more than batch ids (nor none), a call that
\* returned has issued ceil(N / batch) POSTs plus one for every 412 it
\* retried, of which exactly ceil(N / batch) were accepted, and no POST and
\* no GET at all for N = 0.
C3_BatchCount ==
    /\ \A k \in 1..Len(calls) : IsPost(calls[k]) =>
        /\ Len(calls[k].ids) <= batch
        /\ Len(calls[k].ids) >= 1
    /\ pc = "returned" =>
        /\ WriteCalls = Ceil(Len(tidal_ids), batch) + Conflicts
        /\ Len(AcceptedWrites) = Ceil(Len(tidal_ids), batch)
    /\ Len(tidal_ids) = 0 => calls = <<>>

\* a call of several batches, the last one partial, returned after a retry
C3_Witness ==
    /\ pc = "returned"
    /\ Conflicts >= 1
    /\ Ceil(Len(tidal_ids), batch) >= 2
    /\ Len(tidal_ids) % batch # 0
    /\ batch >= 2

-----------------------------------------------------------------------------
-----------------------------------------------------------------------------
\* C10: when the call returns, the accepted POSTs, in order, carry the id
\* list cut into consecutive pieces: their concatenation is track_ids, every
\* piece but the last has exactly batch ids, and the destination playlist
\* received exactly that.
C10_AcceptedIsInput ==
    pc = "returned" =>
        LET acc == AcceptedWrites IN
        /\ Concat([k \in 1..Len(acc) |-> acc[k].ids]) = tidal_ids
        /\ \A k \in 1..(Len(acc) - 1) : Len(acc[k].ids) = batch
        /\ remote[t_playlist] = tidal_ids

\* three ids of which two differ, batch 2, the first batch accepted on retry
C10_Witness ==
    /\ pc = "returned"
    /\ batch = 2
    /\ Len(tidal_ids) = 3
    /\ tidal_ids[1] # tidal_ids[2]
    /\ Conflict(calls[2])
    /\ Len(AcceptedWrites) = 2

-----------------------------------------------------------------------------
(* Reading the history of a run *)

IsPrefix(s, t) == Len(s) <= Len(t) /\ SubSeq(t, 1, Len(s)) = s

\* the rows of playlist j's tracks that no search resolved, in track order
UnresolvedOf(j) ==
    LET ts == sp_pls[j].tracks
        ks == SelectSeq([k \in 1..Len(via[j]) |-> k],
                        LAMBDA k : via[j][k] = "none")
    IN  [m \in 1..Len(ks) |-> Row(sp_pls[j].name, ts[ks[m]])]

\* the same over every playlist read so far, in processing order
ExpectedRows == Concat([j \in 1..Len(via) |-> UnresolvedOf(j)])

RunEnded == pc \in {"done", "failed"}

-----------------------------------------------------------------------------
\* C4: when the ISRC search of a track answers with at least one result, the
\* track's id is the id of the first result, no fuzzy search is issued for
\* the track, and the track is collected with that id.
C4_IsrcFirst ==
    (/\ searches # <<>>
     /\ searches[1].kind = "isrc"
     /\ searches[1].results # <<>>)
    =>  /\ Len(searches) = 1
        /\ pc = "collect"
        /\ tid = searches[1].results[1].id

\* an ISRC search answered with two different tracks
C4_Witness ==
    /\ pc = "collect"
    /\ Len(searches) = 1
    /\ searches[1].kind = "isrc"
    /\ Len(searches[1].results) = 2
    /\ searches[1].results[1].id # searches[1].results[2].id
    /\ tid = searches[1].results[1].id

-----------------------------------------------------------------------------
\* C5: a fuzzy search answered with a candidate list yields the first
\* candidate whose duration (seconds * 1000) is within 2000 ms of the source
\* duration if there is one, else the first candidate, and no id only for an
\* empty list.
C5_FuzzyPick ==
    (/\ pc = "collect"
     /\ searches # <<>>
     /\ searches[Len(searches)].kind = "fuzzy")
    =>  LET r == searches[Len(searches)].results
            target == tracks[ti].duration_ms
            W == {k \in 1..Len(r) :
                     /\ r[k].duration * 1000 - target <= 2000
                     /\ target - r[k].duration * 1000 <= 2000}
        IN  /\ r = <<>> => tid = NoId
            /\ r # <<>> /\ W # {} => tid = r[First(W)].id
            /\ r # <<>> /\ W = {} => tid = r[1].id

\* the second candidate is exactly 2000 ms away, the first is farther
C5_Witness ==
    /\ pc = "collect"
    /\ searches # <<>>
    /\ searches[Len(searches)].kind = "fuzzy"
    /\ LET r == searches[Len(searches)].results IN
        /\ Len(r) = 2
        /\ tracks[ti].duration_ms - r[1].duration * 1000 > 2000
        /\ tracks[ti].duration_ms - r[2].duration * 1000 = 2000
        /\ tid = r[2].id

-----------------------------------------------------------------------------
\* C6: when a playlist's migration reaches its end, the destination playlist
\* holds exactly the resolved ids, the report holds a row for exactly the
\* tracks no search resolved, and the two counts add up to the track count.
C6_EveryTrackLands ==
    pc = "printed" =>
        LET mine == SelectSeq(not_found_rows,
                              LAMBDA row : row.playlist = sp_pls[idx].name)
        IN  /\ remote[t_playlist] = tidal_ids
            /\ Len(remote[t_playlist]) + Len(mine) = Len(tracks)
            /\ mine = UnresolvedOf(idx)
            /\ Len(via[idx]) = Len(tracks)

\* A by ISRC, B by fuzzy search within tolerance, C unmatched: two items in
\* the destination playlist and C alone in the report
C6_Witness ==
    /\ pc = "printed"
    /\ tracks = <<TrackA, TrackB, TrackC>>
    /\ via[idx] = <<"isrc", "fuzzy", "none">>
    /\ Len(remote[t_playlist]) = 2
    /\ remote[t_playlist][2] = 11
    /\ not_found_rows = <<Row("P1", TrackC)>>

-----------------------------------------------------------------------------
\* C7 (as stated): when the run has ended, every playlist after one that
\* failed was still read and created.
C7_Original ==
    RunEnded =>
        \A j \in 1..Len(sp_pls) : Len(via) >= j /\ Len(remote) >= j

\* C7 (amended): a fatal error ends the run.  Nothing is rolled back: the
\* destination playlist keeps the batches accepted before the error and every
\* earlier playlist keeps all its ids; no later playlist is read or created.
C7_NoRollbackRunEnds ==
    fatal_at # 0 =>
        /\ pc \in {"raised", "failed"}
        /\ idx = fatal_at
        /\ Len(via) = idx
        /\ Len(remote) <= idx
        /\ Len(remote) = idx =>
            LET acc == AcceptedWrites
            IN  remote[idx] = Concat([k \in 1..Len(acc) |-> acc[k].ids])
        /\ \A j \in 1..(idx - 1) :
            Len(remote[j]) + Len(UnresolvedOf(j)) = Len(sp_pls[j].tracks)

\* the first of two playlists failed with part of its ids written
C7_Witness ==
    /\ pc = "failed"
    /\ idx = 1
    /\ Len(sp_pls) = 2
    /\ Len(remote) = 1
    /\ remote[1] # <<>>
    /\ Len(remote[1]) < Len(tidal_ids)

-----------------------------------------------------------------------------
\* C8 (as stated): when the run has ended, the report holds the row of every
\* unresolved track of every playlist processed, in processing order.
C8_Original ==
    RunEnded => report = ExpectedRows

\* C8 (amended): the unresolved list only grows by appending and always
\* holds the rows of the unresolved tracks of the playlists processed so
\* far, in processing order; a run that ends without a fatal error leaves
\* exactly these rows in the report, and no other run writes the report.
C8_Accumulates ==
    /\ [](/\ not_found_rows = ExpectedRows
          /\ pc = "done" => report = ExpectedRows
          /\ pc = "done" => (report_written <=> ExpectedRows # <<>>)
          /\ pc # "done" => ~report_written /\ report = <<>>)
    /\ [][IsPrefix(not_found_rows, not_found_rows')]_vars

\* the report holds rows of both playlists
C8_Witness ==
    /\ pc = "done"
    /\ report_written
    /\ Len(report) >= 2
    /\ report[1].playlist = "P1"
    /\ report[Len(report)].playlist = "P2"

=============================================================================
